---- MODULE Spec2Model ----
(***************************************************************************)
(* gvm (Go Version Manager), src/src/main.rs.                              *)
(*                                                                         *)
(* The model covers the version registry and the activation engine: the    *)
(* version-string helpers, the enumeration of ~/go/bin, the reading of the *)
(* `go` pointer and the commands `use` and `install`.                      *)
(*                                                                         *)
(* Strings are sequences of one-character strings, so that prefix tests,   *)
(* splitting on '.' and integer parsing are computed, not assumed.         *)
(* ~/go/bin is a function from entry names to entries; an entry is absent, *)
(* a regular file, or a symbolic link holding the path it was given.       *)
(***************************************************************************)
EXTENDS Integers, Sequences, FiniteSets, TLC

VARIABLES
    binDir,      \* TRUE iff the directory ~/go/bin exists
    bin,         \* entry name -> entry of ~/go/bin
    op,          \* the command of the last finished invocation
    arg,         \* its version argument
    outcome,     \* its outcome
    pre,         \* the contents of ~/go/bin when that invocation began
    calls,       \* the subprocesses that invocation started, in order
    va, vb,      \* the arguments of version_compare
    ordering,    \* its result
    listing,     \* the result of list_installed_versions
    pc,          \* process -> the place a running `use` has reached
    ver,         \* process -> its version argument
    res,         \* process -> its outcome
    writer,      \* the process that changed the pointer entry last, or 0
    raced        \* TRUE once somebody else removed a checked wrapper

fsVars == <<binDir, bin, op, arg, outcome, pre, calls>>
cmpVars == <<va, vb, ordering>>
procVars == <<pc, ver, res, writer, raced>>
vars == <<binDir, bin, op, arg, outcome, pre, calls, va, vb, ordering, listing,
          pc, ver, res, writer, raced>>

----------------------------------------------------------------------------
(* Strings                                                                 *)

Prefix == <<"g", "o">>

StartsWith(s, p) == Len(s) >= Len(p) /\ SubSeq(s, 1, Len(p)) = p

normalize_version(version) ==
    IF StartsWith(version, Prefix) THEN version ELSE Prefix \o version

extract_version_number(version) ==
    IF StartsWith(version, Prefix)
    THEN SubSeq(version, Len(Prefix) + 1, Len(version))
    ELSE version

----------------------------------------------------------------------------
(* version_compare.  A u32 is kept as <<high, low>> halves of 16 bits, so  *)
(* that the values up to 2^32 - 1, and the overflow beyond, are exact.     *)

Half == 2 ^ 16

Digits == <<"0", "1", "2", "3", "4", "5", "6", "7", "8", "9">>

IsDigit(c) == \E i \in 1..Len(Digits) : Digits[i] = c

DigitValue(c) == (CHOOSE i \in 1..Len(Digits) : Digits[i] = c) - 1

Ok(n) == [ok |-> TRUE, value |-> n]
Err == [ok |-> FALSE, value |-> <<0, 0>>]

\* acc * 10 + c, an Err on overflow (checked_mul, checked_add)
PushDigit(acc, c) ==
    IF ~acc.ok THEN acc
    ELSE LET low == acc.value[2] * 10 + DigitValue(c)
             high == acc.value[1] * 10 + (low \div Half)
         IN IF high >= Half THEN Err ELSE Ok(<<high, low % Half>>)

RECURSIVE Accumulate(_, _)
Accumulate(acc, digits) ==
    IF digits = <<>> THEN acc
    ELSE Accumulate(PushDigit(acc, Head(digits)), Tail(digits))

\* str::parse::<u32>: an optional '+', then one or more decimal digits, no
\* overflow; anything else is an Err.
ParseU32(p) ==
    LET digits == IF p # <<>> /\ Head(p) = "+" THEN Tail(p) ELSE p IN
    IF digits = <<>> \/ \E i \in 1..Len(digits) : ~IsDigit(digits[i])
    THEN Err
    ELSE Accumulate(Ok(<<0, 0>>), digits)

\* str::split('.'): always at least one part
RECURSIVE SplitDot(_)
SplitDot(s) ==
    IF \A i \in 1..Len(s) : s[i] # "."
    THEN <<s>>
    ELSE LET k == CHOOSE i \in 1..Len(s) :
                      s[i] = "." /\ \A j \in 1..(i - 1) : s[j] # "."
         IN <<SubSeq(s, 1, k - 1)>> \o SplitDot(SubSeq(s, k + 1, Len(s)))

Zero == <<0, 0>>

\* parts.get(i).and_then(|p| p.parse().ok()).unwrap_or(0)
Component(parts, i) ==
    IF i > Len(parts) THEN Zero
    ELSE LET n == ParseU32(parts[i]) IN IF n.ok THEN n.value ELSE Zero

parse_version(s) ==
    LET parts == SplitDot(s) IN
    <<Component(parts, 1), Component(parts, 2), Component(parts, 3)>>

\* Ord for u32
CmpU32(x, y) ==
    IF x[1] < y[1] THEN "Less"
    ELSE IF x[1] > y[1] THEN "Greater"
    ELSE IF x[2] < y[2] THEN "Less"
    ELSE IF x[2] > y[2] THEN "Greater"
    ELSE "Equal"

\* Ord for (u32, u32, u32): the first component that differs decides
CmpTriple(x, y) ==
    IF CmpU32(x[1], y[1]) # "Equal" THEN CmpU32(x[1], y[1])
    ELSE IF CmpU32(x[2], y[2]) # "Equal" THEN CmpU32(x[2], y[2])
    ELSE CmpU32(x[3], y[3])

\* A comparison of the raw strings, character by character.
CharOrder == <<"+", "-", ".">> \o Digits \o <<"c", "r">>

CharRank(c) == CHOOSE i \in 1..Len(CharOrder) : CharOrder[i] = c

RECURSIVE CmpStr(_, _)
CmpStr(a, b) ==
    IF a = <<>> /\ b = <<>> THEN "Equal"
    ELSE IF a = <<>> THEN "Less"
    ELSE IF b = <<>> THEN "Greater"
    ELSE IF CharRank(Head(a)) < CharRank(Head(b)) THEN "Less"
    ELSE IF CharRank(Head(a)) > CharRank(Head(b)) THEN "Greater"
    ELSE CmpStr(Tail(a), Tail(b))

version_compare_raw(a, b) == CmpStr(a, b)

version_compare(a, b) ==
    LET a_parsed == parse_version(a)
        b_parsed == parse_version(b)
    IN CmpTriple(a_parsed, b_parsed)

----------------------------------------------------------------------------
(* Paths and the directory ~/go/bin                                        *)

get_go_bin_dir == <<"home", "go", "bin">>

\* PathBuf::join with a relative, slash-free name
PathJoin(dir, name) == Append(dir, name)

\* Path::file_name: the last component
FileName(path) == path[Len(path)]

\* Path::parent
Parent(path) == SubSeq(path, 1, Len(path) - 1)

PointerName == <<"g", "o">>

go_link == PathJoin(get_go_bin_dir, PointerName)

\* The version arguments the commands are invoked with.
Go19   == <<"g", "o", "1", ".", "9">>
Go110  == <<"g", "o", "1", ".", "1", "0">>
GoPls  == <<"g", "o", "p", "l", "s">>

VersionArgs ==
    { <<>>, <<"g", "o">>, <<"1", ".", "9">>, Go19, <<"1", ".", "1", "0">>,
      <<"p", "l", "s">> }

\* The entry names those arguments can touch.
Names == { normalize_version(v) : v \in VersionArgs }

VersionedNames == Names \ {PointerName}

NoEntry == [kind |-> "none"]
RegularFile == [kind |-> "file"]
SymLink(target) == [kind |-> "link", target |-> target]

EntryAt(b, path) ==
    IF Parent(path) = get_go_bin_dir /\ FileName(path) \in DOMAIN b
    THEN b[FileName(path)]
    ELSE NoEntry

\* stat(2): follows symbolic links; a loop ends in ELOOP, i.e. failure.
RECURSIVE Stat(_, _, _)
Stat(b, path, hops) ==
    LET e == EntryAt(b, path) IN
    CASE e.kind = "none" -> FALSE
      [] e.kind = "file" -> TRUE
      [] e.kind = "link" -> IF hops = 0 THEN FALSE
                            ELSE Stat(b, e.target, hops - 1)

\* Path::exists
Exists(b, path) == Stat(b, path, Cardinality(DOMAIN b))

\* Path::is_symlink (lstat: the entry itself)
IsSymlink(b, path) == EntryAt(b, path).kind = "link"

\* fs::remove_file: unlink(2) fails with ENOENT on an absent entry
RemoveFile(b, path) ==
    IF EntryAt(b, path).kind = "none"
    THEN [ok |-> FALSE, bin |-> b]
    ELSE [ok |-> TRUE, bin |-> [b EXCEPT ![FileName(path)] = NoEntry]]

\* The two paths taken the other way round.
SymlinkSwapped(d, b, original, link) ==
    IF ~d \/ EntryAt(b, original).kind # "none"
    THEN [ok |-> FALSE, bin |-> b]
    ELSE [ok |-> TRUE, bin |-> [b EXCEPT ![FileName(original)] = SymLink(link)]]

\* unix_fs::symlink(original, link): symlink(2) stores `original` without
\* looking at it and fails with EEXIST when `link` is taken, with ENOENT
\* when the directory is missing.
Symlink(d, b, original, link) ==
    IF ~d \/ EntryAt(b, link).kind # "none"
    THEN [ok |-> FALSE, bin |-> b]
    ELSE [ok |-> TRUE, bin |-> [b EXCEPT ![FileName(link)] = SymLink(original)]]

----------------------------------------------------------------------------
(* get_current_version                                                     *)

None == <<"None">>
Some(x) == <<"Some", x>>

get_current_version(b) ==
    IF IsSymlink(b, go_link)
    THEN Some(FileName(EntryAt(b, go_link).target))
    ELSE None

----------------------------------------------------------------------------
(* list_installed_versions.  fs::read_dir yields the entries in an order   *)
(* of the file system's choosing: `order` is that order.                   *)

Contains(s, c) == \E i \in 1..Len(s) : s[i] = c

VersionedPrefix == <<"g", "o", "1", ".">>

\* Any name with the prefix, the pointer's included.
IsPrefixedEntry(file_name) == StartsWith(file_name, Prefix)

\* the closure given to filter_map
IsVersionEntry(file_name) ==
    StartsWith(file_name, VersionedPrefix)
        /\ ((~Contains(file_name, ".")) = FALSE)

RECURSIVE FilterSeq(_)
FilterSeq(names) ==
    IF names = <<>> THEN <<>>
    ELSE IF IsVersionEntry(Head(names))
         THEN <<Head(names)>> \o FilterSeq(Tail(names))
         ELSE FilterSeq(Tail(names))

\* the comparator given to sort_by
SortOrder(a, b) ==
    version_compare(extract_version_number(a), extract_version_number(b))

\* slice::sort_by is a stable sort: x goes before the first element it is
\* Less than, hence after the elements it equals.
RECURSIVE InsertSorted(_, _)
InsertSorted(sorted, x) ==
    IF sorted = <<>> THEN <<x>>
    ELSE IF SortOrder(x, Head(sorted)) = "Less"
         THEN <<x>> \o sorted
         ELSE <<Head(sorted)>> \o InsertSorted(Tail(sorted), x)

RECURSIVE SortBy(_)
SortBy(names) ==
    IF names = <<>> THEN <<>>
    ELSE InsertSorted(SortBy(SubSeq(names, 1, Len(names) - 1)),
                      names[Len(names)])

Present(b) == { n \in DOMAIN b : b[n].kind # "none" }

\* the orders read_dir may yield the entries of b in
ReadDirOrders(b) ==
    LET n == Cardinality(Present(b)) IN
    { o \in [1..n -> Present(b)] : \A i, j \in 1..n : o[i] = o[j] => i = j }

list_installed_versions(d, b, order) ==
    IF ~d THEN <<>> ELSE SortBy(FilterSeq(order))

----------------------------------------------------------------------------
(* cmd_use.  removeFault and linkFault let the file system refuse an       *)
(* operation for a reason of its own (EACCES, EROFS, ENOSPC, EIO).         *)

\* The pointer removed before the installed-check.
UseResultRemoveFirst(version, d, b, removeFault, linkFault) ==
    LET normalized == normalize_version(version)
        go_wrapper == PathJoin(get_go_bin_dir, normalized)
        removed == RemoveFile(b, go_link)
    IN
    IF ~Exists(removed.bin, go_wrapper)
    THEN [outcome |-> "NotInstalled", bin |-> removed.bin]
    ELSE
      LET linked == Symlink(d, removed.bin, go_wrapper, go_link) IN
      IF linked.ok /\ ~linkFault
      THEN [outcome |-> "Success", bin |-> linked.bin]
      ELSE [outcome |-> "LinkCreationFailed", bin |-> removed.bin]

UseResult(version, d, b, removeFault, linkFault) ==
    LET normalized == normalize_version(version)
        go_wrapper == PathJoin(get_go_bin_dir, normalized)
    IN
    IF ~Exists(b, go_wrapper)
    THEN [outcome |-> "NotInstalled", bin |-> b]
    ELSE
      LET mustRemove == Exists(b, go_link) \/ IsSymlink(b, go_link)
          removed == IF mustRemove /\ ~removeFault
                     THEN RemoveFile(b, go_link)
                     ELSE [ok |-> ~mustRemove, bin |-> b]
      IN
      IF ~removed.ok
      THEN [outcome |-> "RemovalFailed", bin |-> b]
      ELSE
        LET linked == IF linkFault
                      THEN [ok |-> FALSE, bin |-> removed.bin]
                      ELSE Symlink(d, removed.bin, go_wrapper, go_link)
        IN
        IF linked.ok
        THEN [outcome |-> "Success", bin |-> linked.bin]
        ELSE [outcome |-> "LinkCreationFailed", bin |-> linked.bin]

cmd_use(version, removeFault, linkFault) ==
    LET r == UseResult(version, binDir, bin, removeFault, linkFault) IN
    /\ bin' = r.bin
    /\ outcome' = r.outcome
    /\ op' = "use"
    /\ arg' = version
    /\ pre' = bin
    /\ calls' = <<>>
    /\ UNCHANGED <<binDir, cmpVars, listing, procVars>>

Use == \E version \in VersionArgs : cmd_use(version, FALSE, FALSE)

----------------------------------------------------------------------------
(* cmd_install.  The two subprocesses are collaborators: `go install       *)
(* golang.org/dl/<normalized>@latest` may or may not leave the wrapper     *)
(* ~/go/bin/<normalized> behind, whatever its exit status, and             *)
(* `<wrapper> download` fetches the SDK outside ~/go/bin.  golang.org/dl   *)
(* has no command named `go`, so the installer never writes the pointer.   *)

ExitStatus == {"ok", "failed", "spawn_error"}

Call(proc, status) == [proc |-> proc, status |-> status]

InstallerPlaces(normalized, status, placed) ==
    placed /\ status # "spawn_error" /\ normalized # PointerName

\* The installer's exit status trusted, the wrapper not looked for again.
InstallResultTrusting(version, d, b, installStatus, placed, downloadStatus) ==
    LET normalized == normalize_version(version)
        go_wrapper == PathJoin(get_go_bin_dir, normalized)
        places == InstallerPlaces(normalized, installStatus, placed)
        d1 == d \/ places
        b1 == IF places THEN [b EXCEPT ![normalized] = RegularFile] ELSE b
    IN
    IF Exists(b, go_wrapper)
    THEN [outcome |-> "AlreadyInstalled", dir |-> d, bin |-> b, calls |-> <<>>]
    ELSE IF installStatus # "ok"
    THEN [outcome |-> "InstallerInvocationFailed", dir |-> d1, bin |-> b1,
          calls |-> <<Call("installer", installStatus)>>]
    ELSE [outcome |-> IF downloadStatus = "ok" THEN "Success"
                      ELSE "DownloadFailed",
          dir |-> d1, bin |-> b1,
          calls |-> <<Call("installer", installStatus),
                      Call("downloader", downloadStatus)>>]

InstallResult(version, d, b, installStatus, placed, downloadStatus) ==
    LET normalized == normalize_version(version)
        go_wrapper == PathJoin(get_go_bin_dir, normalized)
        places == InstallerPlaces(normalized, installStatus, placed)
        d1 == d \/ places
        b1 == IF places THEN [b EXCEPT ![normalized] = RegularFile] ELSE b
    IN
    IF Exists(b, go_wrapper)
    THEN [outcome |-> "AlreadyInstalled", dir |-> d, bin |-> b, calls |-> <<>>]
    ELSE IF installStatus # "ok"
    THEN [outcome |-> "InstallerInvocationFailed", dir |-> d1, bin |-> b1,
          calls |-> <<Call("installer", installStatus)>>]
    ELSE IF ~Exists(b1, go_wrapper)
    THEN [outcome |-> "WrapperNotFound", dir |-> d1, bin |-> b1,
          calls |-> <<Call("installer", installStatus)>>]
    ELSE [outcome |-> IF downloadStatus = "ok" THEN "Success"
                      ELSE "DownloadFailed",
          dir |-> d1, bin |-> b1,
          calls |-> <<Call("installer", installStatus),
                      Call("downloader", downloadStatus)>>]

cmd_install(version, installStatus, placed, downloadStatus) ==
    LET r == InstallResult(version, binDir, bin, installStatus, placed,
                           downloadStatus) IN
    /\ binDir' = r.dir
    /\ bin' = r.bin
    /\ outcome' = r.outcome
    /\ op' = "install"
    /\ arg' = version
    /\ pre' = bin
    /\ calls' = r.calls
    /\ UNCHANGED <<cmpVars, listing, procVars>>

Install ==
    \E version \in VersionArgs, installStatus \in ExitStatus,
       placed \in BOOLEAN, downloadStatus \in ExitStatus :
        cmd_install(version, installStatus, placed, downloadStatus)

\* `use` on a file system that may refuse the removal or the creation.
UseFaulty ==
    \E version \in VersionArgs, removeFault \in BOOLEAN, linkFault \in BOOLEAN :
        cmd_use(version, removeFault, linkFault)

----------------------------------------------------------------------------
(* Initial states: ~/go/bin missing or holding any set of the versioned    *)
(* entries, the pointer absent, a regular file, or a link to one of them.  *)

InitBin ==
    /\ binDir \in BOOLEAN
    /\ bin \in [Names -> {NoEntry, RegularFile}
                          \cup { SymLink(PathJoin(get_go_bin_dir, n)) :
                                   n \in { m \in Names : IsVersionEntry(m) } }]
    /\ \A n \in VersionedNames : bin[n].kind # "link"
    /\ bin[PointerName].kind = "link" => Exists(bin, go_link)
    /\ ~binDir => \A n \in Names : bin[n] = NoEntry

NumProcs == 2

Procs == 1..NumProcs

NoProcs ==
    /\ pc = [p \in Procs |-> "done"]
    /\ ver = [p \in Procs |-> <<>>]
    /\ res = [p \in Procs |-> "none"]
    /\ writer = 0
    /\ raced = FALSE

NoInvocation ==
    /\ op = "none" /\ arg = <<>> /\ outcome = "none" /\ pre = bin
    /\ calls = <<>>

Init ==
    /\ InitBin
    /\ NoInvocation
    /\ va = <<>> /\ vb = <<>> /\ ordering = "none"
    /\ listing = None
    /\ NoProcs

\* Sequential invocations of `use` and `install`, nobody else touching
\* ~/go/bin, the file system never failing for a reason of its own.
Next == Use \/ Install

Spec == Init /\ [][Next]_vars

\* The same, on a file system that may fail.
NextFaulty == UseFaulty \/ Install

SpecFaulty == Init /\ [][NextFaulty]_vars

----------------------------------------------------------------------------
(* Claims about sequential invocations                                     *)

WrapperOf(version) == PathJoin(get_go_bin_dir, normalize_version(version))

\* C1: the pointer ~/go/bin/go is never a symbolic link to an entry that
\* does not exist, nor a link to itself.
PointerNeverDangles ==
    bin[PointerName].kind = "link" =>
        /\ bin[PointerName].target # go_link
        /\ Exists(bin, bin[PointerName].target)

\* C2: when `use` ends in Success, RemovalFailed or LinkCreationFailed, the
\* pointer either designates the requested version or is what it was when
\* the invocation began.  (Stated for the versioned names, apart from the
\* requests that name the pointer itself.)
UseIsAllOrNothing ==
    (/\ op = "use"
     /\ normalize_version(arg) # PointerName
     /\ outcome \in {"Success", "RemovalFailed", "LinkCreationFailed"})
        => \/ bin[PointerName] = SymLink(WrapperOf(arg))
           \/ bin[PointerName] = pre[PointerName]

\* C4: after a successful `use v`, get_current_version returns the
\* normalized v; and `use v` on a directory where v is installed and
\* already current succeeds and leaves the directory as it was.
UseSetsCurrent ==
    op = "use" =>
        /\ outcome = "Success"
              => get_current_version(bin) = Some(normalize_version(arg))
        /\ (Exists(pre, WrapperOf(arg))
              /\ get_current_version(pre) = Some(normalize_version(arg)))
              => (outcome = "Success" /\ bin = pre)

\* `use v` succeeded although v was current already
UseSetsCurrentWitness ==
    /\ op = "use"
    /\ outcome = "Success"
    /\ arg = <<"1", ".", "9">>
    /\ get_current_version(pre) = Some(Go19)
    /\ get_current_version(bin) = Some(Go19)

\* C5: `use` of a version for which ~/go/bin/<normalized> does not exist
\* (no entry, or a link that resolves to none) ends in NotInstalled and
\* changes no entry of ~/go/bin, the pointer included.
UseNotInstalledChangesNothing ==
    (op = "use" /\ ~Exists(pre, WrapperOf(arg)))
        => (outcome = "NotInstalled" /\ bin = pre)

\* go1.10 is not installed while the pointer designates go1.9
UseNotInstalledWitness ==
    /\ op = "use"
    /\ arg = <<"1", ".", "1", "0">>
    /\ outcome = "NotInstalled"
    /\ pre[Go110].kind = "none"
    /\ bin[PointerName] = SymLink(WrapperOf(Go19))

\* C7: `install` of a version whose entry exists (as Path::exists finds,
\* following links) ends in AlreadyInstalled
\* without starting a subprocess; otherwise the installer runs first, the
\* downloader is started only after the installer exited successfully and
\* the entry was found, Success requires the downloader's success, and the
\* pointer entry is left as it was.
InstallProtocol ==
    op = "install" =>
        LET present == Exists(pre, WrapperOf(arg))
            downloads == \E i \in 1..Len(calls) : calls[i].proc = "downloader"
        IN
        /\ present => (outcome = "AlreadyInstalled" /\ calls = <<>>)
        /\ ~present => (outcome # "AlreadyInstalled" /\ Len(calls) >= 1
                          /\ calls[1].proc = "installer")
        /\ downloads => /\ Len(calls) = 2
                        /\ calls[1] = Call("installer", "ok")
                        /\ calls[2].proc = "downloader"
                        /\ Exists(bin, WrapperOf(arg))
        /\ outcome = "Success" => (downloads /\ calls[2].status = "ok")
        /\ bin[PointerName] = pre[PointerName]

\* an installation that went through both steps beside an active pointer
InstallWitness ==
    /\ op = "install"
    /\ outcome = "Success"
    /\ arg = <<"1", ".", "1", "0">>
    /\ pre[Go110].kind = "none"
    /\ bin[Go110].kind = "file"
    /\ bin[PointerName].kind = "link"

\* C10: whenever the pointer is present, its target is one of the entries
\* list_installed_versions returns, so that cmd_list marks exactly one
\* version as current.
PointerTargetIsListed ==
    (bin[PointerName].kind = "link" /\ Exists(bin, go_link)) =>
        \A order \in ReadDirOrders(bin) :
            LET versions == list_installed_versions(binDir, bin, order) IN
            Cardinality({ i \in 1..Len(versions) :
                            Some(versions[i]) = get_current_version(bin) }) = 1

----------------------------------------------------------------------------
(* cmd_use one system call at a time, for invocations that run as          *)
(* separate processes.  Each step is one look at, or one change of,        *)
(* ~/go/bin; the file system fails only as the entries found make it.      *)

Goto(p, place) == pc' = [pc EXCEPT ![p] = place]

Finish(p, result) ==
    /\ pc' = [pc EXCEPT ![p] = "done"]
    /\ res' = [res EXCEPT ![p] = result]

\* if !go_wrapper.exists() { ...; return; }
UseCheckWrapper(p) ==
    /\ pc[p] = "check_wrapper"
    /\ IF Exists(bin, WrapperOf(ver[p]))
       THEN Goto(p, "stat_link") /\ UNCHANGED res
       ELSE Finish(p, "NotInstalled")
    /\ UNCHANGED <<fsVars, cmpVars, listing, ver, writer, raced>>

\* go_link.exists() && ...
UseStatLinkAnd(p) ==
    /\ pc[p] = "stat_link"
    /\ IF Exists(bin, go_link)
       THEN Goto(p, "lstat_link")
       ELSE Goto(p, "symlink")
    /\ UNCHANGED <<fsVars, cmpVars, listing, ver, res, writer, raced>>

\* go_link.exists() || ...
UseStatLink(p) ==
    /\ pc[p] = "stat_link"
    /\ IF Exists(bin, go_link)
       THEN Goto(p, "remove")
       ELSE Goto(p, "lstat_link")
    /\ UNCHANGED <<fsVars, cmpVars, listing, ver, res, writer, raced>>

\* ... || go_link.is_symlink()
UseLstatLink(p) ==
    /\ pc[p] = "lstat_link"
    /\ IF IsSymlink(bin, go_link)
       THEN Goto(p, "remove")
       ELSE Goto(p, "symlink")
    /\ UNCHANGED <<fsVars, cmpVars, listing, ver, res, writer, raced>>

\* if let Err(e) = fs::remove_file(&go_link) { ...; return; }
UseRemove(p) ==
    /\ pc[p] = "remove"
    /\ LET r == RemoveFile(bin, go_link) IN
       /\ bin' = r.bin
       /\ IF r.ok
          THEN Goto(p, "symlink") /\ writer' = p /\ UNCHANGED res
          ELSE Finish(p, "RemovalFailed") /\ UNCHANGED writer
    /\ UNCHANGED <<binDir, op, arg, outcome, pre, calls, cmpVars, listing,
                   ver, raced>>

\* match unix_fs::symlink(&go_wrapper, &go_link) { Ok(_) => ..., Err(e) => ... }
UseSymlink(p) ==
    /\ pc[p] = "symlink"
    /\ LET r == Symlink(binDir, bin, WrapperOf(ver[p]), go_link) IN
       /\ bin' = r.bin
       /\ IF r.ok
          THEN Finish(p, "Success") /\ writer' = p
          ELSE Finish(p, "LinkCreationFailed") /\ UNCHANGED writer
    /\ UNCHANGED <<binDir, op, arg, outcome, pre, calls, cmpVars, listing,
                   ver, raced>>

UseStep(p) ==
    \/ UseCheckWrapper(p)
    \/ UseStatLink(p)
    \/ UseLstatLink(p)
    \/ UseRemove(p)
    \/ UseSymlink(p)

Installed(b) ==
    { v \in VersionArgs :
        normalize_version(v) # PointerName /\ Exists(b, WrapperOf(v)) }

\* NumProcs invocations of `use`, each for an installed version, started
\* together.
InitConc ==
    /\ InitBin
    /\ NoInvocation
    /\ va = <<>> /\ vb = <<>> /\ ordering = "none"
    /\ listing = None
    /\ pc = [p \in Procs |-> "check_wrapper"]
    /\ ver \in [Procs -> Installed(bin)]
    /\ res = [p \in Procs |-> "none"]
    /\ writer = 0
    /\ raced = FALSE

NextConc == \E p \in Procs : UseStep(p)

SpecConc == InitConc /\ [][NextConc]_vars

\* Somebody else removes the wrapper a running `use` has found and not yet
\* linked to.
ExternalRemove ==
    /\ pc[1] \in {"stat_link", "lstat_link", "remove", "symlink"}
    /\ ~raced
    /\ raced' = TRUE
    /\ bin' = [bin EXCEPT ![normalize_version(ver[1])] = NoEntry]
    /\ UNCHANGED <<binDir, op, arg, outcome, pre, calls, cmpVars, listing,
                   pc, ver, res, writer>>

\* One invocation of `use`, for any versioned name, and that somebody else.
InitRace ==
    /\ InitBin
    /\ NoInvocation
    /\ va = <<>> /\ vb = <<>> /\ ordering = "none"
    /\ listing = None
    /\ pc = [p \in Procs |-> IF p = 1 THEN "check_wrapper" ELSE "done"]
    /\ ver \in [Procs -> VersionArgs]
    /\ normalize_version(ver[1]) # PointerName
    /\ \A p \in Procs : p # 1 => ver[p] = <<>>
    /\ res = [p \in Procs |-> "none"]
    /\ writer = 0
    /\ raced = FALSE

NextRace == UseStep(1) \/ ExternalRemove

SpecRace == InitRace /\ [][NextRace]_vars

\* C3: when the wrapper is removed between the installed-check of `use`
\* and its creation of the link, the invocation ends in LinkCreationFailed.
RacedUseFails ==
    (raced /\ pc[1] = "done") => res[1] = "LinkCreationFailed"

\* C6: once all the concurrent invocations have ended, the pointer is a
\* link to the version of the invocation that changed the pointer entry
\* last; it is not absent.
LastWriterWins ==
    (\A p \in Procs : pc[p] = "done") =>
        /\ writer \in Procs
        /\ res[writer] = "Success"
        /\ bin[PointerName] = SymLink(WrapperOf(ver[writer]))

\* two invocations for different versions both changed the pointer entry:
\* one removed the other's link and ended in Success, as the other did
LastWriterWitness ==
    /\ \A p \in Procs : pc[p] = "done" /\ res[p] = "Success"
    /\ ver[1] # ver[2]
    /\ writer = 1
    /\ bin[PointerName] = SymLink(WrapperOf(ver[1]))

----------------------------------------------------------------------------
(* version_compare on its own: the two arguments are drawn from the        *)
(* dotted strings of at most MaxParts components, and a few more.          *)

MaxParts == 3

Components == { <<"9">>, <<"1", "0">>, <<"r", "c">> }

RECURSIVE Dotted(_)
Dotted(n) ==
    IF n = 1 THEN Components
    ELSE { s \o <<".">> \o c : s \in Dotted(n - 1), c \in Components }

MoreArgs ==
    { <<>>,
      <<"9", ".">>,
      <<"0", "9">>,
      <<"+", "9">>,
      <<"-", "9">>,
      <<"4", "2", "9", "4", "9", "6", "7", "2", "9", "5">>,
      <<"4", "2", "9", "4", "9", "6", "7", "2", "9", "6">>,
      <<"1", ".", "2", "2", "r", "c", "1">> }

CompareArgs == UNION { Dotted(n) : n \in 1..MaxParts } \cup MoreArgs

Compare ==
    /\ ordering = "none"
    /\ ordering' = version_compare(va, vb)
    /\ UNCHANGED <<fsVars, va, vb, listing, procVars>>

InitCmp ==
    /\ binDir = FALSE
    /\ bin = [n \in Names |-> NoEntry]
    /\ NoInvocation
    /\ NoProcs
    /\ listing = None
    /\ va \in CompareArgs
    /\ vb \in CompareArgs
    /\ ordering = "none"

SpecCmp == InitCmp /\ [][Compare]_vars

\* Numeric order of u32 halves and of triples, stated on its own.
U32Less(x, y) == x[1] < y[1] \/ (x[1] = y[1] /\ x[2] < y[2])

TripleLess(x, y) ==
    \E i \in 1..3 : U32Less(x[i], y[i]) /\ \A j \in 1..(i - 1) : x[j] = y[j]

Flip(o) == CASE o = "Less" -> "Greater" [] o = "Greater" -> "Less"
             [] OTHER -> o

\* C9: version_compare orders version strings by their numeric (major,
\* minor, patch) triple, missing or unparsable components counting as 0:
\* it answers Less exactly when the first triple is numerically smaller,
\* Equal exactly when the triples are equal, the reverse when the arguments
\* are swapped, and it is transitive.
CompareIsTotalOrder ==
    ordering # "none" =>
        /\ ordering \in {"Less", "Equal", "Greater"}
        /\ (ordering = "Less") = TripleLess(parse_version(va), parse_version(vb))
        /\ (ordering = "Equal") = (parse_version(va) = parse_version(vb))
        /\ version_compare(vb, va) = Flip(ordering)
        /\ \A c \in CompareArgs :
              /\ (ordering = "Less" /\ version_compare(vb, c) = "Less")
                    => version_compare(va, c) = "Less"
              /\ (ordering = "Equal")
                    => version_compare(va, c) = version_compare(vb, c)

CompareWitness ==
    /\ va = <<"9">> \o <<".">> \o <<"9">>
    /\ vb = <<"9">> \o <<".">> \o <<"1", "0">>
    /\ ordering = "Less"

----------------------------------------------------------------------------
(* list_installed_versions on its own: ~/go/bin missing, or holding at     *)
(* most MaxEntries of the names below, the pointer among them.             *)

MaxEntries == 4

ListNames ==
    { PointerName, Go19, Go110, GoPls,
      <<"g", "o", "1", ".">>,
      <<"g", "o", "1", ".", "9", ".", "0">>,
      <<"g", "o", "1", "9">>,
      <<"g", "o", "2", ".", "0">> }

List ==
    /\ listing = None
    /\ \E order \in ReadDirOrders(bin) :
          listing' = Some(list_installed_versions(binDir, bin, order))
    /\ UNCHANGED <<fsVars, cmpVars, procVars>>

InitList ==
    /\ binDir \in BOOLEAN
    /\ bin \in [ListNames -> {NoEntry, RegularFile,
                              SymLink(PathJoin(get_go_bin_dir, Go19))}]
    /\ \A n \in ListNames : bin[n].kind = "link" => n = PointerName
    /\ Cardinality(Present(bin)) <= MaxEntries
    /\ ~binDir => Present(bin) = {}
    /\ NoInvocation
    /\ NoProcs
    /\ va = <<>> /\ vb = <<>> /\ ordering = "none"
    /\ listing = None

SpecList == InitList /\ [][List]_vars

Range(seq) == { seq[i] : i \in 1..Len(seq) }

\* C8: list_installed_versions returns exactly the entries of ~/go/bin
\* whose name begins with "go1.", each once, in ascending order of their
\* numeric (major, minor, patch) triple; the pointer entry `go` is never
\* among them; the result is empty when ~/go/bin does not exist.
ListIsSortedVersionEntries ==
    listing # None =>
        LET result == listing[2] IN
        /\ Range(result) =
              { n \in Present(bin) : StartsWith(n, VersionedPrefix) }
        /\ \A i, j \in 1..Len(result) : result[i] = result[j] => i = j
        /\ \A i, j \in 1..Len(result) :
              i < j => ~TripleLess(
                           parse_version(extract_version_number(result[j])),
                           parse_version(extract_version_number(result[i])))
        /\ PointerName \notin Range(result)
        /\ (~binDir => result = <<>>)

\* the pointer is present, go1.10 was read before go1.9, and go1.9 is
\* listed first
ListWitness ==
    /\ listing = Some(<<Go19, Go110>>)
    /\ bin[PointerName].kind = "link"
    /\ bin[GoPls].kind = "file"

====
